---------------------------- MODULE Spec2Model ----------------------------
(***************************************************************************)
(* Harmony: text / screenshot -> structured event JSON.                    *)
(*                                                                         *)
(* A state machine of one call into the step1 pipeline                     *)
(* (HarmonyPipeline.parse_text / parse_image, reached directly or through  *)
(* the step1 command line) or into the step0 prototype (HarmonyStepZero).  *)
(* Python strings are sequences of one-character strings, so that          *)
(* str.strip, str.splitlines, str.lower, "\n".join and textwrap.dedent     *)
(* are computed, not assumed.                                              *)
(***************************************************************************)
EXTENDS Integers, Sequences, FiniteSets, TLC

(***************************************************************************)
(* Python strings                                                          *)
(***************************************************************************)

\* Python's None, for Optional[str] parameters: a one-element sequence whose
\* element is no character.
None ==
    <<"<None>">>

SP ==
    " "

NL ==
    "\n"

FF ==
    "\f"

\* str.isspace() on the characters the model uses.
IsSpace(c) ==
    c \in {" ", "\n", "\t", "\r", "\f"}

\* The line boundaries of str.splitlines() among the characters the model uses.
IsLineBreak(c) ==
    c \in {"\n", "\r", "\f"}

\* str.lstrip()
LStrip(s) ==
    IF \A i \in 1..Len(s) : IsSpace(s[i]) THEN <<>>
    ELSE SubSeq(s, CHOOSE i \in 1..Len(s) :
                     ~IsSpace(s[i]) /\ \A j \in 1..(i - 1) : IsSpace(s[j]),
                Len(s))

\* str.rstrip()
RStrip(s) ==
    IF \A i \in 1..Len(s) : IsSpace(s[i]) THEN <<>>
    ELSE SubSeq(s, 1, CHOOSE i \in 1..Len(s) :
                        ~IsSpace(s[i]) /\ \A j \in (i + 1)..Len(s) : IsSpace(s[j]))

\* str.strip()
Strip(s) ==
    RStrip(LStrip(s))

\* str.lower() on one character (ASCII letters).
LowerChar(c) ==
    CASE c = "A" -> "a" [] c = "B" -> "b" [] c = "C" -> "c" [] c = "D" -> "d"
      [] c = "E" -> "e" [] c = "F" -> "f" [] c = "G" -> "g" [] c = "H" -> "h"
      [] c = "I" -> "i" [] c = "J" -> "j" [] c = "K" -> "k" [] c = "L" -> "l"
      [] c = "M" -> "m" [] c = "N" -> "n" [] c = "O" -> "o" [] c = "P" -> "p"
      [] c = "Q" -> "q" [] c = "R" -> "r" [] c = "S" -> "s" [] c = "T" -> "t"
      [] c = "U" -> "u" [] c = "V" -> "v" [] c = "W" -> "w" [] c = "X" -> "x"
      [] c = "Y" -> "y" [] c = "Z" -> "z" [] OTHER -> c

\* str.lower()
Lower(s) ==
    [i \in 1..Len(s) |-> LowerChar(s[i])]

\* The k-th smallest element of a finite set of numbers.
Nth(S, k) ==
    CHOOSE i \in S : Cardinality({j \in S : j < i}) = k - 1

\* The pieces of s between the boundaries that start at the positions B,
\* where the boundary at position i is BLen[i] characters long: piece k runs
\* from the end of boundary k-1 to the start of boundary k, and the last
\* piece is what follows the last boundary.
Pieces(s, B, BLen) ==
    LET n        == Cardinality(B)
        start(k) == IF k = 1 THEN 1 ELSE Nth(B, k - 1) + BLen[Nth(B, k - 1)]
        stop(k)  == IF k = n + 1 THEN Len(s) ELSE Nth(B, k) - 1
    IN  [k \in 1..(n + 1) |-> SubSeq(s, start(k), stop(k))]

\* str.splitlines(): "\r\n" is one boundary, and the text after the last
\* boundary is a line only when it is not empty.
SplitLines(s) ==
    LET B == {i \in 1..Len(s) :
                /\ IsLineBreak(s[i])
                /\ ~(s[i] = "\n" /\ i > 1 /\ s[i - 1] = "\r")}
        BLen == [i \in B |->
                   IF s[i] = "\r" /\ i < Len(s) /\ s[i + 1] = "\n" THEN 2 ELSE 1]
        all == Pieces(s, B, BLen)
    IN  IF all[Len(all)] = <<>> THEN SubSeq(all, 1, Len(all) - 1) ELSE all

\* str.split("\n"): always at least one piece.
SplitOnNewline(s) ==
    LET B == {i \in 1..Len(s) : s[i] = "\n"}
    IN  Pieces(s, B, [i \in B |-> 1])

RECURSIVE JoinNewline(_)
\* "\n".join(lines)
JoinNewline(lines) ==
    IF lines = <<>> THEN <<>>
    ELSE IF Len(lines) = 1 THEN lines[1]
    ELSE lines[1] \o <<"\n">> \o JoinNewline(Tail(lines))

Spaces(n) ==
    [i \in 1..n |-> " "]

\* The number of leading blanks (space or tab) of a line.
LeadingBlanks(line) ==
    Cardinality({i \in 1..Len(line) : \A j \in 1..i : line[j] \in {" ", "\t"}})

\* A line textwrap.dedent treats as blank: only spaces and tabs.
IsBlankLine(line) ==
    \A i \in 1..Len(line) : line[i] \in {" ", "\t"}

Min(S) ==
    CHOOSE x \in S : \A y \in S : x <= y

\* textwrap.dedent(text): whitespace-only lines become empty, and the margin
\* common to all other lines is removed from them.  The model's texts indent
\* with spaces only, so the common margin is the least number of leading
\* blanks.
Dedent(text) ==
    LET lines  == SplitOnNewline(text)
        norm   == [i \in 1..Len(lines) |->
                     IF IsBlankLine(lines[i]) THEN <<>> ELSE lines[i]]
        idx    == {i \in 1..Len(norm) : norm[i] # <<>>}
        margin == IF idx = {} THEN 0
                  ELSE Min({LeadingBlanks(norm[i]) : i \in idx})
    IN  JoinNewline([i \in 1..Len(norm) |->
                       IF norm[i] = <<>> THEN <<>>
                       ELSE SubSeq(norm[i], margin + 1, Len(norm[i]))])

(***************************************************************************)
(* Model selection (step1 core/models.py, step0 module constants)          *)
(***************************************************************************)

OPENAI_GPT5_MINI ==
    <<"o", "p", "e", "n", "a", "i", "/", "g", "p", "t", "-", "5", "-", "m", "i", "n", "i">>

OPENAI_GPT4_1_MINI ==
    <<"o", "p", "e", "n", "a", "i", "/", "g", "p", "t", "-", "4", ".", "1", "-", "m", "i", "n", "i">>

GOOGLE_GEMINI_2_5_FLASH ==
    <<"g", "o", "o", "g", "l", "e", "/", "g", "e", "m", "i", "n", "i", "-", "2", ".", "5", "-", "f", "l", "a", "s", "h">>

XAI_GROK_4_1_FAST_REASONING ==
    <<"x", "a", "i", "/", "g", "r", "o", "k", "-", "4", ".", "1", "-", "f", "a", "s", "t", "-", "r", "e", "a", "s", "o", "n", "i", "n", "g">>

DEEPSEEK ==
    <<"d", "e", "e", "p", "s", "e", "e", "k", "/", "d", "e", "e", "p", "s", "e", "e", "k", "-", "v", "3", ".", "2", "-", "t", "h", "i", "n", "k", "i", "n", "g">>

\* step1: the default is a shorthand.
DEFAULT_MODEL_ALIAS ==
    <<"g", "p", "t", "-", "5", "-", "m", "i", "n", "i">>

\* step0: the default is a provider identifier.
DEFAULT_MODEL ==
    OPENAI_GPT5_MINI

\* The alias table in its source order: <<shorthand, target>> pairs.
MODEL_ALIASES ==
    <<
      <<<<"g", "p", "t", "-", "5", "-", "m", "i", "n", "i">>, OPENAI_GPT5_MINI>>,
      <<<<"5", "-", "m", "i", "n", "i">>, OPENAI_GPT5_MINI>>,
      <<<<"g", "p", "t", "5">>, OPENAI_GPT5_MINI>>,
      <<<<"g", "p", "t", "5", "-", "m", "i", "n", "i">>, OPENAI_GPT5_MINI>>,
      <<<<"g", "p", "t", "-", "4", ".", "1", "-", "m", "i", "n", "i">>, OPENAI_GPT4_1_MINI>>,
      <<<<"4", ".", "1", "-", "m", "i", "n", "i">>, OPENAI_GPT4_1_MINI>>,
      <<<<"g", "p", "t", "4", ".", "1", "-", "m", "i", "n", "i">>, OPENAI_GPT4_1_MINI>>,
      <<<<"g", "p", "t", "4", "-", "m", "i", "n", "i">>, OPENAI_GPT4_1_MINI>>,
      <<<<"g", "e", "m", "i", "n", "i">>, GOOGLE_GEMINI_2_5_FLASH>>,
      <<<<"g", "o", "o", "g", "l", "e">>, GOOGLE_GEMINI_2_5_FLASH>>,
      <<<<"g", "r", "o", "k">>, XAI_GROK_4_1_FAST_REASONING>>,
      <<<<"x", "a", "i">>, XAI_GROK_4_1_FAST_REASONING>>,
      <<<<"d", "e", "e", "p", "s", "e", "e", "k">>, DEEPSEEK>>
    >>

\* `alias in MODEL_ALIASES`
IsAlias(a) ==
    \E i \in 1..Len(MODEL_ALIASES) : MODEL_ALIASES[i][1] = a

\* MODEL_ALIASES[alias]
AliasTarget(a) ==
    MODEL_ALIASES[CHOOSE i \in 1..Len(MODEL_ALIASES) : MODEL_ALIASES[i][1] = a][2]

\* The loop that derives SUPPORTED_MODELS: the first alias of every target,
\* in table order.
SUPPORTED_MODELS ==
    LET first == {i \in 1..Len(MODEL_ALIASES) :
                    \A j \in 1..(i - 1) : MODEL_ALIASES[j][2] # MODEL_ALIASES[i][2]}
        RECURSIVE Collect(_)
        Collect(i) ==
            IF i > Len(MODEL_ALIASES) THEN <<>>
            ELSE (IF i \in first THEN <<MODEL_ALIASES[i][1]>> ELSE <<>>)
                 \o Collect(i + 1)
    IN  Collect(1)

ALLOWED_MODEL_TARGETS ==
    {MODEL_ALIASES[i][2] : i \in 1..Len(MODEL_ALIASES)}

\* Exceptions are records: the Python class and which raise statement.
Err(cls, msg) ==
    [ok |-> FALSE, cls |-> cls, msg |-> msg]

\* A normal return.
Ok(v) ==
    [ok |-> TRUE, value |-> v]

\* The ValueError of an unsupported model names the SUPPORTED_MODELS.
UnsupportedModel(choices) ==
    [ok |-> FALSE, cls |-> "ValueError", msg |-> "Unsupported model",
     choices |-> choices]

\* resolve_model_choice with an unknown shorthand answered by the default.
resolve_model_choice_lenient(model, model_string) ==
    IF model # None /\ model_string # None
    THEN Err("ValueError", "Specify either model or model_string, not both.")
    ELSE IF model_string # None
    THEN (IF Strip(model_string) = <<>>
          THEN Err("ValueError", "Model string cannot be empty.")
          ELSE Ok(Strip(model_string)))
    ELSE LET alias == Lower(Strip(IF model = None \/ model = <<>>
                                  THEN DEFAULT_MODEL_ALIAS ELSE model))
         IN  IF IsAlias(alias) THEN Ok(AliasTarget(alias))
             ELSE Ok(AliasTarget(DEFAULT_MODEL_ALIAS))

\* resolve_model_choice handing on a shorthand it does not know as the
\* identifier.
resolve_model_choice_passthrough(model, model_string) ==
    IF model # None /\ model_string # None
    THEN Err("ValueError", "Specify either model or model_string, not both.")
    ELSE IF model_string # None
    THEN (IF Strip(model_string) = <<>>
          THEN Err("ValueError", "Model string cannot be empty.")
          ELSE Ok(Strip(model_string)))
    ELSE LET alias == Lower(Strip(IF model = None \/ model = <<>>
                                  THEN DEFAULT_MODEL_ALIAS ELSE model))
         IN  IF IsAlias(alias) THEN Ok(AliasTarget(alias))
             ELSE Ok(alias)

\* step1 resolve_model_choice(model, model_string)
resolve_model_choice(model, model_string) ==
    IF model # None /\ model_string # None
    THEN Err("ValueError", "Specify either model or model_string, not both.")
    ELSE IF model_string # None
    THEN (IF Strip(model_string) = <<>>
          THEN Err("ValueError", "Model string cannot be empty.")
          ELSE Ok(Strip(model_string)))
    ELSE LET alias == Lower(Strip(IF model = None \/ model = <<>>
                                  THEN DEFAULT_MODEL_ALIAS ELSE model))
         IN  IF IsAlias(alias) THEN Ok(AliasTarget(alias))
             ELSE UnsupportedModel(SUPPORTED_MODELS)

\* step0 HarmonyStepZero._validate_model(model, allow_unknown)
validate_model(model, allow_unknown) ==
    LET model_value == Strip(model)
    IN  IF model_value \notin ALLOWED_MODEL_TARGETS /\ ~allow_unknown
        THEN UnsupportedModel(SUPPORTED_MODELS)
        ELSE Ok(model_value)

(***************************************************************************)
(* OCR engine adapters and the fused transcript                            *)
(***************************************************************************)

\* Each is one token of the text: text that holds no line break and neither
\* starts nor ends with white space, so strip, split and dedent treat it as
\* one character.
TESS_HEADER ==
    "[Tesseract OCR Transcript]"

TESS_RULE ==
    "------------------------"

EASY_HEADER ==
    "[EasyOCR OCR Transcript]"

EASY_RULE ==
    "-----------------------"

NO_TEXT_FOUND ==
    "(no text found)"

\* line.strip() for line in lines if line.strip()
CleanLines(lines) ==
    LET kept == SelectSeq(lines, LAMBDA l : Strip(l) # <<>>)
    IN  [i \in 1..Len(kept) |-> Strip(kept[i])]

\* The Tesseract adapter returning an empty recognition result as an empty
\* string.
extract_text_with_tesseract_empty(exists, installed, raw_text) ==
    IF ~exists THEN Err("FileNotFoundError", "Image not found")
    ELSE IF ~installed THEN Err("RuntimeError", "Tesseract is not installed.")
    ELSE Ok(JoinNewline(CleanLines(SplitLines(raw_text))))

\* extract_text_with_tesseract(image_path): exists says whether the path
\* resolves to a file, installed whether pytesseract finds its binary,
\* raw_text is what image_to_string returns.
extract_text_with_tesseract(exists, installed, raw_text) ==
    IF ~exists THEN Err("FileNotFoundError", "Image not found")
    ELSE IF ~installed THEN Err("RuntimeError", "Tesseract is not installed.")
    ELSE LET cleaned == JoinNewline(CleanLines(SplitLines(raw_text)))
         IN  IF cleaned = <<>>
             THEN Err("RuntimeError", "OCR succeeded but returned empty text.")
             ELSE Ok(cleaned)

\* The EasyOCR adapter answering a missing engine with a placeholder text.
extract_text_with_easyocr_lenient(available, exists, result) ==
    IF ~available THEN Ok(<<NO_TEXT_FOUND>>)
    ELSE IF ~exists THEN Err("FileNotFoundError", "Image not found")
    ELSE LET cleaned == JoinNewline(CleanLines(result))
         IN  IF cleaned = <<>>
             THEN Err("RuntimeError", "EasyOCR returned no text.")
             ELSE Ok(cleaned)

\* extract_text_with_easyocr(image_path): available is EASYOCR_AVAILABLE,
\* result the list of strings reader.readtext(detail=0) returns.
extract_text_with_easyocr(available, exists, result) ==
    IF ~available THEN Err("RuntimeError", "EasyOCR is not installed.")
    ELSE IF ~exists THEN Err("FileNotFoundError", "Image not found")
    ELSE LET cleaned == JoinNewline(CleanLines(result))
         IN  IF cleaned = <<>>
             THEN Err("RuntimeError", "EasyOCR returned no text.")
             ELSE Ok(cleaned)

\* Whether the adapter got as far as reading the image file.
TesseractReads(exists) ==
    exists

EasyocrReads(available, exists) ==
    available /\ exists

\* The f-string of format_fusion_transcript before dedent: every template
\* line carries the indentation of the source (indent blanks), the blank
\* line between the sections none, and the text ends with the indentation
\* in front of the closing quotes.
FusionTemplate(tesseract_text, easyocr_text, indent) ==
    LET ind  == Spaces(indent)
        tsec == IF Strip(tesseract_text) = <<>> THEN <<NO_TEXT_FOUND>>
                ELSE Strip(tesseract_text)
        esec == IF Strip(easyocr_text) = <<>> THEN <<NO_TEXT_FOUND>>
                ELSE Strip(easyocr_text)
    IN  <<NL>> \o ind \o <<TESS_HEADER, NL>>
               \o ind \o <<TESS_RULE, NL>>
               \o ind \o tsec \o <<NL>>
               \o <<NL>>
               \o ind \o <<EASY_HEADER, NL>>
               \o ind \o <<EASY_RULE, NL>>
               \o ind \o esec \o <<NL>>
               \o ind

\* Source indentation of the template in step1 ocr/engine.py.
FusionIndentStep1 ==
    8

\* Source indentation of the template in step0_prototype.py.
FusionIndentStep0 ==
    12

\* The two texts put in each other's section.
format_fusion_transcript_swapped(tesseract_text, easyocr_text) ==
    Strip(Dedent(FusionTemplate(easyocr_text, tesseract_text, FusionIndentStep1)))

\* step1 format_fusion_transcript
format_fusion_transcript(tesseract_text, easyocr_text) ==
    Strip(Dedent(FusionTemplate(tesseract_text, easyocr_text, FusionIndentStep1)))

\* step0 HarmonyStepZero._format_fusion_transcript
format_fusion_transcript0(tesseract_text, easyocr_text) ==
    Strip(Dedent(FusionTemplate(tesseract_text, easyocr_text, FusionIndentStep0)))

(***************************************************************************)
(* Extraction client                                                       *)
(***************************************************************************)

\* One token: a JSON object.
JSON_A ==
    "{\"a\":1}"

\* One token: the backtick character.
BACKTICK ==
    "<backtick>"

StartsWith(s, prefix) ==
    Len(s) >= Len(prefix) /\ SubSeq(s, 1, Len(prefix)) = prefix

EndsWith(s, suffix) ==
    Len(s) >= Len(suffix) /\ SubSeq(s, Len(s) - Len(suffix) + 1, Len(s)) = suffix

\* str.find("\n"): the 1-based index of the first newline, 0 when none.
FindNewline(s) ==
    IF \E i \in 1..Len(s) : s[i] = NL
    THEN CHOOSE i \in 1..Len(s) : s[i] = NL /\ \A j \in 1..(i - 1) : s[j] # NL
    ELSE 0

\* The white space json.loads skips: space, tab, newline, carriage return.
IsJsonSpace(c) ==
    c \in {" ", "\t", "\n", "\r"}

\* text without the JSON white space around it.
JsonTrim(text) ==
    IF \A i \in 1..Len(text) : IsJsonSpace(text[i]) THEN <<>>
    ELSE SubSeq(text,
                CHOOSE i \in 1..Len(text) :
                  ~IsJsonSpace(text[i]) /\ \A j \in 1..(i - 1) : IsJsonSpace(text[j]),
                CHOOSE i \in 1..Len(text) :
                  ~IsJsonSpace(text[i]) /\ \A j \in (i + 1)..Len(text) : IsJsonSpace(text[j]))

\* json.loads(text) on the texts of the model: one JSON value token, white space
\* around it allowed; anything else is a JSONDecodeError.
JsonLoads(text) ==
    IF JsonTrim(text) = <<JSON_A>> THEN Ok(JSON_A)
    ELSE Err("JSONDecodeError", "")

\* The fence handling of _response_to_json.
StripFence(raw_text) ==
    LET cleaned == Strip(raw_text)
        fence   == <<BACKTICK, BACKTICK, BACKTICK>>
    IN  IF StartsWith(cleaned, fence)
        THEN LET first_newline == FindNewline(cleaned)
                 body == IF first_newline # 0
                         THEN SubSeq(cleaned, first_newline + 1, Len(cleaned))
                         ELSE cleaned
             IN  IF EndsWith(body, fence)
                 THEN Strip(SubSeq(body, 1, Len(body) - 3))
                 ELSE body
        ELSE cleaned

\* LLMClient._response_to_json / HarmonyStepZero._response_to_json
response_to_json(raw_text) ==
    LET parsed == JsonLoads(StripFence(raw_text))
    IN  IF parsed.ok THEN parsed
        ELSE Err("RuntimeError", "Model output was not valid JSON")

(***************************************************************************)
(* One call, from an entry point to its return or its exception            *)
(***************************************************************************)

VARIABLES
    entry,              \* "pipeline": HarmonyPipeline called directly;
                        \* "cli": step1 server/cli.py main;
                        \* "step0": step0_prototype.py main
    kind,               \* "text", "ocr-tesseract", "ocr-easyocr", "ocr-fusion"
    argModel,           \* model / --model as the caller gave it, None if not
    argModelString,     \* model_string / --model-string likewise
    text,               \* the text snippet of a text call
    argSourceType,      \* the source_type a caller of parse_text gives
    image,              \* what the image bytes are
    srcExists,          \* whether the image path given to a CLI is a file
    EASYOCR_AVAILABLE,  \* the module flag set by `import easyocr`
    tessInstalled,      \* whether pytesseract finds the tesseract binary
    pc,                 \* where the calling thread is
    model,              \* the model argument of parse_text / parse_image
    model_string,       \* the model_string argument
    selected_model,     \* the resolved provider model identifier
    files,              \* the image files that exist: "src", "tmp"
    tess,               \* the Tesseract task of the pool
    easy,               \* the EasyOCR task of the pool
    tesseract_text,
    easyocr_text,
    exc,                \* the exception in flight inside a try or with block
    ocr_text,
    source_type,
    requests,           \* the requests sent to the extraction service
    raw_text,           \* the text of the reply _response_to_json was given
    result,             \* what the call returned or raised
    trace               \* the events of the call in the order they happened

inputs ==
    <<entry, kind, argModel, argModelString, text, argSourceType, image,
      srcExists, EASYOCR_AVAILABLE, tessInstalled>>

vars ==
    <<entry, kind, argModel, argModelString, text, argSourceType, image,
      srcExists, EASYOCR_AVAILABLE, tessInstalled, pc, model, model_string,
      selected_model, files, tess, easy, tesseract_text, easyocr_text, exc,
      ocr_text, source_type, requests, raw_text, result, trace>>

Kinds ==
    {"text", "ocr-tesseract", "ocr-easyocr", "ocr-fusion"}

\* --model values: none, a shorthand, a shorthand to trim and fold, an unknown one.
ModelInputs ==
    { None,
      <<"g", "e", "m", "i", "n", "i">>,
      <<" ", "G", "r", "o", "k", " ">>,
      <<"g", "p", "t", "9">> }

\* --model-string values: none, a custom identifier with blanks around it, blank.
ModelStringInputs ==
    { None,
      <<" ", "m", "y", "/", "i", "d", " ">>,
      <<" ">> }

TextInputs ==
    { <<>>, <<" ">>, <<" ", "h", "i", " ">> }

\* source_type of HarmonyPipeline.parse_text and of TextParseRequest is any
\* string, "text" when the caller gives none.
SourceTypeInputs ==
    {"text", "email"}

\* Image bytes: none at all, bytes PIL cannot open, an image PIL opens but
\* whose img.save raises (a format PIL only reads, a full disk), an image
\* that is written.
ImageInputs ==
    {"empty", "undecodable", "unsavable", "good"}

\* What pytesseract.image_to_string may return.
TessRawSamples ==
    { <<>>,
      <<" ", NL, " ", FF>>,
      <<"a", FF>>,
      <<" ", "a", " ", NL, NL, "b", " ", NL, FF>> }

\* What reader.readtext(detail=0) may return: a list of strings, the last
\* sample one string that holds line breaks.
EasyRawSamples ==
    { <<>>,
      << <<" ">>, <<>> >>,
      << <<"c">> >>,
      << <<" ", "c", " ">>, <<" ">>, <<"d">> >>,
      << <<"c", NL, NL, " ", "d">> >> }

\* Replies of the extraction service: the bare object; the object in a
\* fence with a language word; in a fence without one and with blanks
\* before it; in a fence on one line; text that is not JSON.
ReplySamples ==
    { <<JSON_A>>,
      <<BACKTICK, BACKTICK, BACKTICK, "j", "s", "o", "n", NL, JSON_A, NL,
        BACKTICK, BACKTICK, BACKTICK>>,
      <<" ", NL, BACKTICK, BACKTICK, BACKTICK, NL, JSON_A, NL,
        BACKTICK, BACKTICK, BACKTICK, NL>>,
      <<BACKTICK, BACKTICK, BACKTICK, JSON_A, BACKTICK, BACKTICK, BACKTICK>>,
      <<"o", "o", "p", "s">> }

NoExc ==
    [ok |-> TRUE]

Pending ==
    [ok |-> FALSE, cls |-> "<pending>", msg |-> ""]

IdleTask ==
    [st |-> "idle", res |-> Pending]

Impl ==
    IF entry = "step0" THEN "step0" ELSE "step1"

\* The path the OCR engines are given: the temporary copy in step1, the
\* path of the user in step0.
ImagePath ==
    IF Impl = "step1" THEN "tmp" ELSE "src"

\* The positions inside the try block of parse_image.
TryPcs ==
    {"ocr", "fusion_submit_tess", "fusion_submit_easy", "fusion_join_tess",
     "fusion_join_easy", "fusion_exit", "parse_text", "llm_parse_text",
     "llm_wait1", "llm_wait2"}

Init ==
    /\ entry \in {"pipeline", "cli", "step0"}
    /\ kind \in Kinds
    /\ argModel \in ModelInputs
    /\ argModelString \in ModelStringInputs
    /\ text \in (IF kind = "text" THEN TextInputs ELSE {<<>>})
    /\ argSourceType \in (IF kind = "text" /\ entry = "pipeline"
                          THEN SourceTypeInputs ELSE {"text"})
    /\ image \in (IF kind # "text" /\ entry # "step0" THEN ImageInputs ELSE {"good"})
    /\ srcExists \in (IF kind # "text" /\ entry # "pipeline" THEN BOOLEAN ELSE {TRUE})
    /\ EASYOCR_AVAILABLE \in BOOLEAN
    /\ tessInstalled \in BOOLEAN
    /\ pc = "start"
    /\ model = None
    /\ model_string = None
    /\ selected_model = None
    /\ files = IF kind # "text" /\ entry # "pipeline" /\ srcExists THEN {"src"} ELSE {}
    /\ tess = IdleTask
    /\ easy = IdleTask
    /\ tesseract_text = None
    /\ easyocr_text = None
    /\ exc = NoExc
    /\ ocr_text = None
    /\ source_type = "text"
    /\ requests = <<>>
    /\ raw_text = None
    /\ result = Pending
    /\ trace = <<>>

\* `raise e` at the current position: inside the try block of parse_image
\* the finally clause runs first; elsewhere the call ends with e.
Raise(e) ==
    IF Impl = "step1" /\ kind # "text" /\ pc \in TryPcs
    THEN pc' = "finally" /\ exc' = e /\ result' = result
    ELSE pc' = "done" /\ result' = e /\ exc' = exc

(***************************************************************************)
(* Entry points                                                            *)
(***************************************************************************)

\* step0 _parse_model_arg(raw), the argparse type of --model.
parse_model_arg(raw) ==
    LET cleaned == Lower(Strip(raw))
    IN  IF IsAlias(cleaned) THEN Ok(AliasTarget(cleaned))
        ELSE Err("ArgumentTypeError", "Unsupported model alias")

\* argparse ends the process (exit status 2) on a usage error.
UsageError(msg) ==
    Err("SystemExit", msg)

\* HarmonyPipeline.parse_text / parse_image called with the arguments of the
\* caller as they are, which is also what the two handlers of server/main.py
\* do with the fields of the request.
PipelineCall ==
    /\ entry = "pipeline"
    /\ pc = "start"
    /\ model' = argModel
    /\ model_string' = argModelString
    /\ source_type' = argSourceType
    /\ pc' = IF kind = "text" THEN "parse_text" ELSE "parse_image"
    /\ UNCHANGED <<inputs, raw_text, selected_model, files, tess, easy, tesseract_text,
                   easyocr_text, exc, ocr_text, requests, result, trace>>

\* step1 server/cli.py main: --model and --model-string exclude each other,
\* --model defaults to DEFAULT_MODEL_ALIAS and --model-string to None; with
\* no message on the command line a line is read and stripped, and an empty
\* one is refused (text = <<>> stands for that case); an image command
\* checks the path and reads the bytes before parse_image.
CliMain ==
    /\ entry = "cli"
    /\ pc = "start"
    /\ IF argModel # None /\ argModelString # None
       THEN /\ pc' = "done"
            /\ result' = UsageError("not allowed with argument")
            /\ UNCHANGED <<model, model_string, trace>>
       ELSE /\ model' = (IF argModel = None THEN DEFAULT_MODEL_ALIAS ELSE argModel)
            /\ model_string' = argModelString
            /\ IF kind = "text" /\ text = <<>>
               THEN /\ pc' = "done"
                    /\ result' = Err("ValueError",
                                     "Cannot parse an empty text snippet.")
                    /\ UNCHANGED trace
               ELSE IF kind = "text"
               THEN pc' = "parse_text" /\ UNCHANGED <<result, trace>>
               ELSE IF ~srcExists
               THEN /\ pc' = "done"
                    /\ result' = Err("FileNotFoundError", "Image not found")
                    /\ UNCHANGED trace
               ELSE /\ pc' = "parse_image"
                    /\ trace' = Append(trace, "cli_read_bytes")
                    /\ UNCHANGED result
    /\ UNCHANGED <<inputs, raw_text, selected_model, files, tess, easy, tesseract_text,
                   easyocr_text, exc, ocr_text, source_type, requests>>

\* step0 main: argparse converts --model with _parse_model_arg, the string
\* default DEFAULT_MODEL included when the option is absent; an empty line
\* read for the message is refused (text = <<>>); then the model
\* is chosen and validated by the constructor of HarmonyStepZero, and the
\* pipeline of the command is called.
Step0Main ==
    /\ entry = "step0"
    /\ pc = "start"
    /\ \E parsed \in {parse_model_arg(IF argModel = None THEN DEFAULT_MODEL
                                       ELSE argModel)} :
       \E selected \in {IF argModelString # None THEN Strip(argModelString)
                        ELSE IF parsed.ok THEN parsed.value ELSE None} :
       \E valid \in {validate_model(selected, argModelString # None)} :
           IF argModel # None /\ argModelString # None
           THEN /\ pc' = "done"
                /\ result' = UsageError("not allowed with argument")
                /\ UNCHANGED selected_model
           ELSE IF ~parsed.ok
           THEN /\ pc' = "done"
                /\ result' = UsageError("argument --model: Unsupported model alias")
                /\ UNCHANGED selected_model
           ELSE IF kind = "text" /\ text = <<>>
           THEN /\ pc' = "done"
                /\ result' = Err("ValueError",
                                 "Cannot parse an empty text snippet.")
                /\ UNCHANGED selected_model
           ELSE IF ~valid.ok
           THEN /\ pc' = "done"
                /\ result' = valid
                /\ UNCHANGED selected_model
           ELSE /\ selected_model' = valid.value
                /\ pc' = IF kind = "text" THEN "llm_parse_text" ELSE "ocr"
                /\ UNCHANGED result
    /\ UNCHANGED <<inputs, raw_text, model, model_string, files, tess, easy,
                   tesseract_text, easyocr_text, exc, ocr_text, source_type,
                   requests, trace>>

(***************************************************************************)
(* step1 parse_image: the temporary copy                                   *)
(***************************************************************************)

\* parse_image up to the try block: the check for empty bytes.
ParseImageEntry ==
    /\ pc = "parse_image"
    /\ IF image = "empty"
       THEN /\ pc' = "done"
            /\ result' = Err("ValueError", "Uploaded image is empty.")
       ELSE /\ pc' = "write_temp"
            /\ UNCHANGED result
    /\ UNCHANGED <<inputs, raw_text, model, model_string, selected_model, files, tess,
                   easy, tesseract_text, easyocr_text, exc, ocr_text,
                   source_type, requests, trace>>

\* _write_temp_image writing the bytes as they are: bytes PIL cannot open
\* are put in the temporary file too, and the OCR step follows.
WriteTempImageRaw ==
    /\ pc = "write_temp"
    /\ \/ /\ image = "undecodable"
          /\ trace' = trace \o <<"temp_create", "temp_save">>
          /\ files' = files \cup {"tmp"}
          /\ pc' = "ocr"
          /\ UNCHANGED result
       \/ /\ image = "unsavable"
          /\ trace' = trace \o <<"decode", "temp_create", "temp_save">>
          /\ files' = files \cup {"tmp"}
          /\ pc' = "done"
          /\ result' = Err("ValueError", "Uploaded file is not a valid image.")
       \/ /\ image = "good"
          /\ trace' = trace \o <<"decode", "temp_create", "temp_save">>
          /\ files' = files \cup {"tmp"}
          /\ pc' = "ocr"
          /\ UNCHANGED result
    /\ UNCHANGED <<inputs, raw_text, model, model_string, selected_model, tess, easy,
                   tesseract_text, easyocr_text, exc, ocr_text, source_type,
                   requests>>

\* _write_temp_image: Image.open, NamedTemporaryFile(delete=False),
\* img.save.  Every exception becomes a ValueError; the file, once created,
\* stays.
WriteTempImage ==
    /\ pc = "write_temp"
    /\ \/ /\ image = "undecodable"
          /\ trace' = Append(trace, "decode")
          /\ pc' = "done"
          /\ result' = Err("ValueError", "Uploaded file is not a valid image.")
          /\ UNCHANGED files
       \/ /\ image = "unsavable"
          /\ trace' = trace \o <<"decode", "temp_create", "temp_save">>
          /\ files' = files \cup {"tmp"}
          /\ pc' = "done"
          /\ result' = Err("ValueError", "Uploaded file is not a valid image.")
       \/ /\ image = "good"
          /\ trace' = trace \o <<"decode", "temp_create", "temp_save">>
          /\ files' = files \cup {"tmp"}
          /\ pc' = "ocr"
          /\ UNCHANGED result
    /\ UNCHANGED <<inputs, raw_text, model, model_string, selected_model, tess, easy,
                   tesseract_text, easyocr_text, exc, ocr_text, source_type,
                   requests>>

\* Another process removes the image file while the OCR step runs (the
\* finally clause of parse_image allows for it: FileNotFoundError is passed).
ExternalUnlink ==
    /\ pc \in {"ocr", "fusion_submit_tess", "fusion_submit_easy",
               "fusion_join_tess", "fusion_join_easy", "fusion_exit"}
    /\ ImagePath \in files
    /\ files' = files \ {ImagePath}
    /\ trace' = Append(trace, "external_unlink")
    /\ UNCHANGED <<inputs, raw_text, pc, model, model_string, selected_model, tess, easy,
                   tesseract_text, easyocr_text, exc, ocr_text, source_type,
                   requests, result>>

\* The finally clause of parse_image: temp_path.unlink(), a missing file
\* passed over; then the return value or the exception goes to the caller.
Finally ==
    /\ pc = "finally"
    /\ files' = files \ {"tmp"}
    /\ trace' = Append(trace, "unlink")
    /\ pc' = "done"
    /\ result' = IF exc.ok THEN result ELSE exc
    /\ UNCHANGED <<inputs, raw_text, model, model_string, selected_model, tess, easy,
                   tesseract_text, easyocr_text, exc, ocr_text, source_type,
                   requests>>

(***************************************************************************)
(* The OCR step                                                            *)
(***************************************************************************)

\* The events an adapter run adds to the trace.
EngineEvents(name, reads) ==
    (IF reads THEN <<name \o "_read">> ELSE <<>>) \o <<name \o "_done">>

\* After the OCR step: step1 parse_image calls self.parse_text, step0
\* _process_ocr_text calls run_text_pipeline (the model was validated by the
\* constructor).
AfterOcr ==
    IF Impl = "step1" THEN "parse_text" ELSE "llm_parse_text"

\* ocr_mode == OCRMode.TESSERACT / run_tesseract_pipeline
OcrTesseract ==
    /\ pc = "ocr"
    /\ kind = "ocr-tesseract"
    /\ \E raw \in TessRawSamples :
         LET res == extract_text_with_tesseract(ImagePath \in files,
                                                tessInstalled, raw)
         IN  /\ trace' = trace \o EngineEvents("tess", TesseractReads(ImagePath \in files))
             /\ IF res.ok
                THEN /\ ocr_text' = res.value
                     /\ source_type' = "ocr-tesseract"
                     /\ pc' = AfterOcr
                     /\ UNCHANGED <<exc, result>>
                ELSE /\ Raise(res)
                     /\ UNCHANGED <<ocr_text, source_type>>
    /\ UNCHANGED <<inputs, raw_text, model, model_string, selected_model, files, tess,
                   easy, tesseract_text, easyocr_text, requests>>

\* ocr_mode == OCRMode.EASYOCR / run_easyocr_pipeline
OcrEasyocr ==
    /\ pc = "ocr"
    /\ kind = "ocr-easyocr"
    /\ \E raw \in EasyRawSamples :
         LET res == extract_text_with_easyocr(EASYOCR_AVAILABLE,
                                              ImagePath \in files, raw)
         IN  /\ trace' = trace \o EngineEvents("easy",
                            EasyocrReads(EASYOCR_AVAILABLE, ImagePath \in files))
             /\ IF res.ok
                THEN /\ ocr_text' = res.value
                     /\ source_type' = "ocr-easyocr"
                     /\ pc' = AfterOcr
                     /\ UNCHANGED <<exc, result>>
                ELSE /\ Raise(res)
                     /\ UNCHANGED <<ocr_text, source_type>>
    /\ UNCHANGED <<inputs, raw_text, model, model_string, selected_model, files, tess,
                   easy, tesseract_text, easyocr_text, requests>>

\* The fusion step without its precondition: the tasks are submitted
\* whatever EASYOCR_AVAILABLE says.
FusionCheckSkipped ==
    /\ pc = "ocr"
    /\ kind = "ocr-fusion"
    /\ pc' = "fusion_submit_tess"
    /\ UNCHANGED <<inputs, raw_text, model, model_string, selected_model, files, tess,
                   easy, tesseract_text, easyocr_text, exc, ocr_text,
                   source_type, requests, result, trace>>

\* _run_fusion_ocr / run_fusion_pipeline: the EASYOCR_AVAILABLE check.
FusionCheck ==
    /\ pc = "ocr"
    /\ kind = "ocr-fusion"
    /\ IF ~EASYOCR_AVAILABLE
       THEN Raise(Err("RuntimeError", "EasyOCR is required for OCR fusion."))
       ELSE pc' = "fusion_submit_tess" /\ UNCHANGED <<exc, result>>
    /\ UNCHANGED <<inputs, raw_text, model, model_string, selected_model, files, tess,
                   easy, tesseract_text, easyocr_text, ocr_text, source_type,
                   requests, trace>>

\* tess_future = executor.submit(extract_text_with_tesseract, image_path)
SubmitTess ==
    /\ pc = "fusion_submit_tess"
    /\ tess' = [tess EXCEPT !.st = "queued"]
    /\ trace' = Append(trace, "submit_tess")
    /\ pc' = "fusion_submit_easy"
    /\ UNCHANGED <<inputs, raw_text, model, model_string, selected_model, files, easy,
                   tesseract_text, easyocr_text, exc, ocr_text, source_type,
                   requests, result>>

\* submit for the EasyOCR task that does not hand the task to a worker.
SubmitEasyDropped ==
    /\ pc = "fusion_submit_easy"
    /\ easy' = easy
    /\ trace' = Append(trace, "submit_easy")
    /\ pc' = "fusion_join_tess"
    /\ UNCHANGED <<inputs, raw_text, model, model_string, selected_model, files, tess,
                   tesseract_text, easyocr_text, exc, ocr_text, source_type,
                   requests, result>>

\* easy_future = executor.submit(extract_text_with_easyocr, image_path)
SubmitEasy ==
    /\ pc = "fusion_submit_easy"
    /\ easy' = [easy EXCEPT !.st = "queued"]
    /\ trace' = Append(trace, "submit_easy")
    /\ pc' = "fusion_join_tess"
    /\ UNCHANGED <<inputs, raw_text, model, model_string, selected_model, files, tess,
                   tesseract_text, easyocr_text, exc, ocr_text, source_type,
                   requests, result>>

\* A worker thread of the pool takes the Tesseract task.
TessStart ==
    /\ tess.st = "queued"
    /\ tess' = [tess EXCEPT !.st = "running"]
    /\ trace' = Append(trace, "tess_start")
    /\ UNCHANGED <<inputs, raw_text, pc, model, model_string, selected_model, files, easy,
                   tesseract_text, easyocr_text, exc, ocr_text, source_type,
                   requests, result>>

\* The Tesseract task runs the adapter; its return value or exception is
\* stored in the future.
TessFinish ==
    /\ tess.st = "running"
    /\ \E raw \in TessRawSamples :
         tess' = [st |-> "done",
                  res |-> extract_text_with_tesseract(ImagePath \in files,
                                                      tessInstalled, raw)]
    /\ trace' = trace \o EngineEvents("tess", TesseractReads(ImagePath \in files))
    /\ UNCHANGED <<inputs, raw_text, pc, model, model_string, selected_model, files, easy,
                   tesseract_text, easyocr_text, exc, ocr_text, source_type,
                   requests, result>>

\* A worker thread of the pool takes the EasyOCR task.
EasyStart ==
    /\ easy.st = "queued"
    /\ easy' = [easy EXCEPT !.st = "running"]
    /\ trace' = Append(trace, "easy_start")
    /\ UNCHANGED <<inputs, raw_text, pc, model, model_string, selected_model, files, tess,
                   tesseract_text, easyocr_text, exc, ocr_text, source_type,
                   requests, result>>

\* The EasyOCR task runs the adapter.
EasyFinish ==
    /\ easy.st = "running"
    /\ \E raw \in EasyRawSamples :
         easy' = [st |-> "done",
                  res |-> extract_text_with_easyocr(EASYOCR_AVAILABLE,
                                                    ImagePath \in files, raw)]
    /\ trace' = trace \o EngineEvents("easy",
                   EasyocrReads(EASYOCR_AVAILABLE, ImagePath \in files))
    /\ UNCHANGED <<inputs, raw_text, pc, model, model_string, selected_model, files, tess,
                   tesseract_text, easyocr_text, exc, ocr_text, source_type,
                   requests, result>>

\* The joins taken in the order of completion: when the EasyOCR task has
\* failed before the Tesseract task ended, its exception is the one raised.
JoinAsCompleted ==
    /\ pc = "fusion_join_tess"
    /\ tess.st = "done"
    /\ IF tess.res.ok
       THEN /\ tesseract_text' = tess.res.value
            /\ pc' = "fusion_join_easy"
            /\ UNCHANGED exc
       ELSE /\ exc' = (IF easy.st = "done" /\ ~easy.res.ok
                          /\ \E i, j \in 1..Len(trace) :
                                i < j /\ trace[i] = "easy_done"
                                      /\ trace[j] = "tess_done"
                       THEN easy.res ELSE tess.res)
            /\ pc' = "fusion_exit"
            /\ UNCHANGED tesseract_text
    /\ UNCHANGED <<inputs, raw_text, model, model_string, selected_model, files, tess,
                   easy, easyocr_text, ocr_text, source_type, requests, result,
                   trace>>

\* tess_future.result() outside a with block: the exception of the Tesseract
\* task goes to the finally clause of parse_image at once, the pool not
\* waited for.
JoinTessNoPool ==
    /\ pc = "fusion_join_tess"
    /\ tess.st = "done"
    /\ IF tess.res.ok
       THEN /\ tesseract_text' = tess.res.value
            /\ pc' = "fusion_join_easy"
            /\ UNCHANGED exc
       ELSE /\ exc' = tess.res
            /\ pc' = IF Impl = "step1" THEN "finally" ELSE "fusion_exit"
            /\ UNCHANGED tesseract_text
    /\ UNCHANGED <<inputs, raw_text, model, model_string, selected_model, files, tess,
                   easy, easyocr_text, ocr_text, source_type, requests, result,
                   trace>>

\* tesseract_text = tess_future.result(): blocks until the task is done and
\* re-raises its exception, which leaves the with block.
JoinTess ==
    /\ pc = "fusion_join_tess"
    /\ tess.st = "done"
    /\ IF tess.res.ok
       THEN /\ tesseract_text' = tess.res.value
            /\ pc' = "fusion_join_easy"
            /\ UNCHANGED exc
       ELSE /\ exc' = tess.res
            /\ pc' = "fusion_exit"
            /\ UNCHANGED tesseract_text
    /\ UNCHANGED <<inputs, raw_text, model, model_string, selected_model, files, tess,
                   easy, easyocr_text, ocr_text, source_type, requests, result,
                   trace>>

\* easyocr_text = easy_future.result()
JoinEasy ==
    /\ pc = "fusion_join_easy"
    /\ easy.st = "done"
    /\ IF easy.res.ok
       THEN easyocr_text' = easy.res.value /\ UNCHANGED exc
       ELSE exc' = easy.res /\ UNCHANGED easyocr_text
    /\ pc' = "fusion_exit"
    /\ UNCHANGED <<inputs, raw_text, model, model_string, selected_model, files, tess,
                   easy, tesseract_text, ocr_text, source_type, requests,
                   result, trace>>

\* The fused transcript of the implementation that runs.
FusedTranscript(t, e) ==
    IF Impl = "step1" THEN format_fusion_transcript(t, e)
    ELSE format_fusion_transcript0(t, e)

\* The end of the with block as shutdown(wait=False) would make it: the
\* block is left without waiting for the workers.
ExecutorExitNoWait ==
    /\ pc = "fusion_exit"
    /\ trace' = Append(trace, "pool_shutdown")
    /\ IF exc.ok
       THEN /\ \E fused \in {FusedTranscript(tesseract_text, easyocr_text)} :
                   ocr_text' = fused
            /\ source_type' = "ocr-fusion"
            /\ pc' = AfterOcr
            /\ UNCHANGED <<exc, result>>
       ELSE /\ IF Impl = "step1"
               THEN pc' = "finally" /\ UNCHANGED <<exc, result>>
               ELSE pc' = "done" /\ result' = exc /\ UNCHANGED exc
            /\ UNCHANGED <<ocr_text, source_type>>
    /\ UNCHANGED <<inputs, raw_text, model, model_string, selected_model, files, tess,
                   easy, tesseract_text, easyocr_text, requests>>

\* The end of the with block: ThreadPoolExecutor.__exit__ is
\* shutdown(wait=True), which returns when both workers have ended; then the
\* exception in flight goes on, or the two texts are formatted.
ExecutorExit ==
    /\ pc = "fusion_exit"
    /\ tess.st = "done"
    /\ easy.st = "done"
    /\ trace' = Append(trace, "pool_shutdown")
    /\ IF exc.ok
       THEN /\ \E fused \in {FusedTranscript(tesseract_text, easyocr_text)} :
                   ocr_text' = fused
            /\ source_type' = "ocr-fusion"
            /\ pc' = AfterOcr
            /\ UNCHANGED <<exc, result>>
       ELSE /\ IF Impl = "step1"
               THEN pc' = "finally" /\ UNCHANGED <<exc, result>>
               ELSE pc' = "done" /\ result' = exc /\ UNCHANGED exc
            /\ UNCHANGED <<ocr_text, source_type>>
    /\ UNCHANGED <<inputs, raw_text, model, model_string, selected_model, files, tess,
                   easy, tesseract_text, easyocr_text, requests>>

(***************************************************************************)
(* The extraction step                                                     *)
(***************************************************************************)

\* The text handed to the extraction client.
TextToParse ==
    IF kind = "text" THEN text ELSE ocr_text

\* HarmonyPipeline.parse_text: resolve_model_choice, then self.llm.parse_text.
ParseText ==
    /\ pc = "parse_text"
    /\ LET choice == resolve_model_choice(model, model_string)
       IN  IF choice.ok
           THEN /\ selected_model' = choice.value
                /\ pc' = "llm_parse_text"
                /\ UNCHANGED <<exc, result>>
           ELSE /\ Raise(choice)
                /\ UNCHANGED selected_model
    /\ UNCHANGED <<inputs, raw_text, model, model_string, files, tess, easy,
                   tesseract_text, easyocr_text, ocr_text, source_type,
                   requests, trace>>

\* The request with the tag left at the default of parse_text.
RequestUntagged(with_response_format) ==
    [source_type |-> "text", text |-> Strip(TextToParse),
     model |-> selected_model, response_format |-> with_response_format]

\* The request of one completions_api.create call.
Request(with_response_format) ==
    [source_type |-> source_type, text |-> Strip(TextToParse),
     model |-> selected_model, response_format |-> with_response_format]

\* LLMClient.parse_text / run_text_pipeline up to the first create call: an
\* empty snippet is a ValueError; otherwise the request is sent with
\* response_format.
LlmParseText ==
    /\ pc = "llm_parse_text"
    /\ IF Strip(TextToParse) = <<>>
       THEN /\ Raise(Err("ValueError", "Cannot parse an empty text snippet."))
            /\ UNCHANGED <<requests, trace>>
       ELSE /\ requests' = Append(requests, Request(TRUE))
            /\ trace' = Append(trace, "request")
            /\ pc' = "llm_wait1"
            /\ UNCHANGED <<exc, result>>
    /\ UNCHANGED <<inputs, raw_text, model, model_string, selected_model, files, tess,
                   easy, tesseract_text, easyocr_text, ocr_text, source_type>>

\* `return self._response_to_json(response)` for the reply raw: the parsed
\* event is returned, or the RuntimeError of a reply that is not JSON raised.
\* step1 parse_image returns ocr_text and event through its finally clause;
\* step0 _process_ocr_text prints the OCR text before it returns.
HandleReply(raw) ==
    LET parsed == response_to_json(raw)
    IN  /\ raw_text' = raw
        /\ IF ~parsed.ok THEN Raise(parsed)
           ELSE /\ result' = Ok([ocr_text |-> ocr_text, event |-> parsed.value])
                /\ pc' = IF kind = "text" THEN "done"
                         ELSE IF Impl = "step1" THEN "finally"
                         ELSE "log_ocr"
                /\ UNCHANGED exc

\* The first create call with every exception answered by a second call.
LlmReply1RetryAny ==
    /\ pc = "llm_wait1"
    /\ \/ /\ \E raw \in ReplySamples : HandleReply(raw)
          /\ trace' = Append(trace, "reply")
          /\ UNCHANGED requests
       \/ /\ requests' = Append(requests, Request(FALSE))
          /\ trace' = trace \o <<"error_response_format", "request">>
          /\ pc' = "llm_wait2"
          /\ UNCHANGED <<exc, result, raw_text>>
       \/ /\ requests' = Append(requests, Request(FALSE))
          /\ trace' = trace \o <<"error_other", "request">>
          /\ pc' = "llm_wait2"
          /\ UNCHANGED <<exc, result, raw_text>>
    /\ UNCHANGED <<inputs, model, model_string, selected_model, files, tess,
                   easy, tesseract_text, easyocr_text, ocr_text, source_type>>

\* The first create call ends: with a reply; with an exception whose text
\* holds "response_format", and then create is called again without
\* response_format; or with another exception, which is raised.
LlmReply1 ==
    /\ pc = "llm_wait1"
    /\ \/ /\ \E raw \in ReplySamples : HandleReply(raw)
          /\ trace' = Append(trace, "reply")
          /\ UNCHANGED requests
       \/ /\ requests' = Append(requests, Request(FALSE))
          /\ trace' = trace \o <<"error_response_format", "request">>
          /\ pc' = "llm_wait2"
          /\ UNCHANGED <<exc, result, raw_text>>
       \/ /\ Raise(Err("APIError", "upstream"))
          /\ trace' = Append(trace, "error_other")
          /\ UNCHANGED <<requests, raw_text>>
    /\ UNCHANGED <<inputs, model, model_string, selected_model, files, tess,
                   easy, tesseract_text, easyocr_text, ocr_text, source_type>>

\* The second create call ends: with a reply, or with an exception, which
\* is raised whatever it says.
LlmReply2 ==
    /\ pc = "llm_wait2"
    /\ \/ /\ \E raw \in ReplySamples : HandleReply(raw)
          /\ trace' = Append(trace, "reply")
       \/ /\ Raise(Err("APIError", "upstream"))
          /\ trace' = Append(trace, "error_other")
          /\ UNCHANGED raw_text
       \/ /\ Raise(Err("APIError", "response_format is not supported"))
          /\ trace' = Append(trace, "error_response_format")
          /\ UNCHANGED raw_text
    /\ UNCHANGED <<inputs, model, model_string, selected_model, files, tess,
                   easy, tesseract_text, easyocr_text, ocr_text, source_type,
                   requests>>

\* step0 _process_ocr_text after run_text_pipeline returned: the OCR text is
\* printed to stderr and the result returned.
LogOcrText ==
    /\ pc = "log_ocr"
    /\ trace' = Append(trace, "print_ocr_text")
    /\ pc' = "done"
    /\ UNCHANGED <<inputs, raw_text, model, model_string, selected_model, files, tess,
                   easy, tesseract_text, easyocr_text, exc, ocr_text,
                   source_type, requests, result>>

Next ==
    \/ PipelineCall
    \/ CliMain
    \/ Step0Main
    \/ ParseImageEntry
    \/ WriteTempImage
    \/ ExternalUnlink
    \/ Finally
    \/ OcrTesseract
    \/ OcrEasyocr
    \/ FusionCheck
    \/ SubmitTess
    \/ SubmitEasy
    \/ TessStart
    \/ TessFinish
    \/ EasyStart
    \/ EasyFinish
    \/ JoinTess
    \/ JoinEasy
    \/ ExecutorExit
    \/ ParseText
    \/ LlmParseText
    \/ LlmReply1
    \/ LlmReply2
    \/ LogOcrText

Spec ==
    Init /\ [][Next]_vars

\* ExecutorExit can be taken: the calling thread is at the end of the with
\* block and both workers have ended (ENABLED <<ExecutorExit>>_vars, written
\* out as a predicate of the state).
ExecutorExitEnabled ==
    /\ pc = "fusion_exit"
    /\ tess.st = "done"
    /\ easy.st = "done"

\* The scheduling the fusion step relies on: the calling thread goes on
\* whenever it can, each of the two workers of the pool takes its task, and a
\* task that runs ends (the adapter returns or raises).  The last conjunct is
\* weak fairness of ExecutorExit with its enabling condition written out.
\* Nothing is assumed of the entry points, of the extraction service or of
\* other processes.
FusionFairness ==
    /\ WF_vars(SubmitTess)
    /\ WF_vars(SubmitEasy)
    /\ WF_vars(TessStart)
    /\ WF_vars(TessFinish)
    /\ WF_vars(EasyStart)
    /\ WF_vars(EasyFinish)
    /\ WF_vars(JoinTess)
    /\ WF_vars(JoinEasy)
    /\ ([]<>(~ExecutorExitEnabled) \/ []<><<ExecutorExit>>_vars)

LiveSpec ==
    Spec /\ FusionFairness

(***************************************************************************)
(* Properties                                                              *)
(***************************************************************************)

Done ==
    pc = "done"

\* The call ended with an exception.
Failed ==
    Done /\ ~result.ok

\* Event a happened, and event b after it.
Before(a, b) ==
    \E i, j \in 1..Len(trace) : i < j /\ trace[i] = a /\ trace[j] = b

Happened(a) ==
    \E i \in 1..Len(trace) : trace[i] = a

Count(tok, s) ==
    Cardinality({i \in 1..Len(s) : s[i] = tok})

PosOf(tok, s) ==
    CHOOSE i \in 1..Len(s) : s[i] = tok

\* A fused transcript: each header and rule once, the Tesseract section
\* first.
WellSectioned(s) ==
    /\ \A tok \in {TESS_HEADER, TESS_RULE, EASY_HEADER, EASY_RULE} : Count(tok, s) = 1
    /\ s[1] = TESS_HEADER
    /\ PosOf(TESS_HEADER, s) < PosOf(TESS_RULE, s)
    /\ PosOf(TESS_RULE, s) < PosOf(EASY_HEADER, s)
    /\ PosOf(EASY_HEADER, s) < PosOf(EASY_RULE, s)

\* The text of the Tesseract section: between its rule and the next header.
PrimaryBody(s) ==
    Strip(SubSeq(s, PosOf(TESS_RULE, s) + 1, PosOf(EASY_HEADER, s) - 1))

\* The text of the EasyOCR section: from its rule to the end.
SecondaryBody(s) ==
    Strip(SubSeq(s, PosOf(EASY_RULE, s) + 1, Len(s)))

\* The fusion step is over: the with block has been left.
FusionLeft ==
    /\ kind = "ocr-fusion"
    /\ tess.st = "done"
    /\ easy.st = "done"
    /\ pc \notin {"fusion_submit_easy", "fusion_join_tess", "fusion_join_easy",
                  "fusion_exit"}

BothSucceeded ==
    tess.st = "done" /\ tess.res.ok /\ easy.st = "done" /\ easy.res.ok

\* t is a transcript as the spec describes one: not empty, and each of its
\* lines not empty and without white space at either end.
CleanTranscript(t) ==
    /\ t # <<>>
    /\ \A l \in {SplitOnNewline(t)[i] : i \in 1..Len(SplitOnNewline(t))} :
          l # <<>> /\ Strip(l) = l

\* The lines of t, each without the white space at its ends.
TrimmedLines(t) ==
    [i \in 1..Len(SplitOnNewline(t)) |-> Strip(SplitOnNewline(t)[i])]

\* The section body holds the transcript: the same lines in the same order,
\* and the very same text when the transcript is a clean one (dedent takes
\* the white space all lines share off the front of the lines of a
\* transcript that is not).
Contains(body, transcript) ==
    /\ TrimmedLines(body) = TrimmedLines(transcript)
    /\ CleanTranscript(transcript) => body = transcript

\* C1: in every fusion run in which both engines succeed, the fused
\* transcript holds the Tesseract section with the Tesseract transcript
\* first and the EasyOCR section with the EasyOCR transcript second,
\* whichever task completed first.
C1_PrimaryBeforeSecondary ==
    (FusionLeft /\ BothSucceeded) =>
        /\ ocr_text # None
        /\ WellSectioned(ocr_text)
        /\ Contains(PrimaryBody(ocr_text), tess.res.value)
        /\ Contains(SecondaryBody(ocr_text), easy.res.value)

\* A fusion run where both engines succeeded, the EasyOCR task completed
\* before the Tesseract task, and the transcript was fused.
C1_Witness ==
    /\ FusionLeft
    /\ BothSucceeded
    /\ Before("easy_done", "tess_done")
    /\ ocr_text # None

\* C2 as claimed: when exactly one of the two adapters failed, the fusion
\* step still yields a fused transcript, with the placeholder in the section
\* of the failed engine and the transcript of the other engine in its own.
C2_PartialFailureTolerated ==
    (FusionLeft /\ tess.res.ok # easy.res.ok) =>
        /\ ocr_text # None
        /\ WellSectioned(ocr_text)
        /\ PrimaryBody(ocr_text) =
              (IF tess.res.ok THEN tess.res.value ELSE <<NO_TEXT_FOUND>>)
        /\ SecondaryBody(ocr_text) =
              (IF easy.res.ok THEN easy.res.value ELSE <<NO_TEXT_FOUND>>)

\* The error err tells of the failure f: it is f, or it carries f among its
\* causes.
Reports(err, f) ==
    \/ err = f
    \/ "causes" \in DOMAIN err /\ f \in err.causes

\* C3 as claimed: when both adapters failed, the call fails with an error
\* that reports the failure of both engines, and neither a fused transcript
\* nor an extraction request is produced.
C3_CombinedError ==
    (FusionLeft /\ ~tess.res.ok /\ ~easy.res.ok /\ Done) =>
        /\ ~result.ok
        /\ Reports(result, tess.res)
        /\ Reports(result, easy.res)
        /\ ocr_text = None
        /\ requests = <<>>

FusionUnavailable ==
    Err("RuntimeError", "EasyOCR is required for OCR fusion.")

\* C4: a fusion call with EasyOCR flagged unavailable never starts an OCR
\* task, never sends an extraction request and never returns a result: it
\* goes on until it ends, and it ends with an error.
C4_FusionNeverDegrades ==
    (kind = "ocr-fusion" /\ ~EASYOCR_AVAILABLE) =>
        /\ tess.st = "idle"
        /\ easy.st = "idle"
        /\ ~Happened("tess_read")
        /\ ~Happened("easy_read")
        /\ ocr_text = None
        /\ requests = <<>>
        /\ ~result.ok
        /\ Done => result # Pending
        /\ ~Done => ENABLED Next

\* A fusion call that ended with the error of the missing EasyOCR.
C4_Witness ==
    /\ kind = "ocr-fusion"
    /\ ~EASYOCR_AVAILABLE
    /\ Done
    /\ result = FusionUnavailable

\* The events that read or write image data.
ImageIO ==
    {"decode", "temp_create", "temp_save", "tess_read", "easy_read"}

\* The exception e has been raised: it is in flight or has ended the call.
Raised(e) ==
    exc = e \/ result = e

\* C5 as claimed: at every fusion entry point the failure of the missing
\* EasyOCR is raised before any image was decoded, any temporary image file
\* written, or any engine read the image.
C5_FailsBeforeImageIO ==
    (kind = "ocr-fusion" /\ Raised(FusionUnavailable)) =>
        \A e \in ImageIO : ~Happened(e)

\* C6 as claimed: when parse_image has returned or raised, no temporary
\* image file of the call exists.
C6_TempFileReleased ==
    (Impl = "step1" /\ kind # "text" /\ Done) => "tmp" \notin files

ModelSelectorErrors ==
    { Err("ValueError", "Specify either model or model_string, not both."),
      Err("ValueError", "Model string cannot be empty."),
      UnsupportedModel(SUPPORTED_MODELS) }

\* The caller gave an explicit identifier and no shorthand.
EscapeHatchOnly ==
    /\ entry \in {"pipeline", "cli"}
    /\ argModel = None
    /\ argModelString # None
    /\ Strip(argModelString) # <<>>

\* C8 as claimed: from every step1 entry point an explicit identifier given
\* alone is accepted unchecked and is the model of the extraction request.
C8_EscapeHatch ==
    EscapeHatchOnly =>
        /\ \A e \in ModelSelectorErrors : ~Raised(e)
        /\ \A i \in 1..Len(requests) : requests[i].model = Strip(argModelString)

\* The caller gave a shorthand that is not in the alias table.
UnknownShorthand ==
    /\ argModel # None
    /\ argModel # <<>>
    /\ ~IsAlias(Lower(Strip(argModel)))

\* Every listed shorthand is in the alias table, and every target of the
\* table has one.
ListsValidShorthands(choices) ==
    /\ Len(choices) > 0
    /\ \A i \in 1..Len(choices) : IsAlias(choices[i])
    /\ ALLOWED_MODEL_TARGETS = {AliasTarget(choices[i]) : i \in 1..Len(choices)}

\* C9: with an unknown shorthand and no explicit identifier no request is
\* ever sent and the call cannot end well; a step1 text request ends with
\* the error that lists the valid shorthands (unless the CLI read an empty
\* line for the message and refused that first).
C9_UnknownShorthandRejected ==
    (UnknownShorthand /\ argModelString = None) =>
        /\ requests = <<>>
        /\ ~Happened("request")
        /\ ~result.ok
        /\ Done => result # Pending
        /\ (Done /\ Impl = "step1" /\ kind = "text"
              /\ ~(entry = "cli" /\ text = <<>>)) =>
              /\ result.cls = "ValueError"
              /\ result.msg = "Unsupported model"
              /\ ListsValidShorthands(result.choices)

\* A step1 text request with an unknown shorthand, rejected.
C9_Witness ==
    /\ UnknownShorthand
    /\ argModelString = None
    /\ Impl = "step1"
    /\ kind = "text"
    /\ Strip(text) # <<>>
    /\ Done
    /\ result = UnsupportedModel(SUPPORTED_MODELS)

EmptySnippet ==
    Err("ValueError", "Cannot parse an empty text snippet.")

\* C10 as claimed: parse_image rejects a bad model selection before any OCR
\* engine has run on the image, and an empty snippet is rejected before any
\* request is sent.
C10_InputErrorsFirst ==
    /\ (Impl = "step1" /\ kind # "text"
          /\ \E e \in ModelSelectorErrors : Raised(e)) =>
             /\ ~Happened("tess_done")
             /\ ~Happened("easy_done")
    /\ Raised(EmptySnippet) => requests = <<>>

\* Both selectors given, the explicit identifier not blank.
BothSelectors ==
    /\ entry = "pipeline"
    /\ argModel # None
    /\ argModelString # None
    /\ Strip(argModelString) # <<>>

\* C11 as claimed: with a shorthand and an explicit identifier both given
\* the identifier takes precedence: the call is not refused for its model
\* selection, and the model of every request is the identifier.
C11_ModelStringPrecedence ==
    BothSelectors =>
        /\ \A e \in ModelSelectorErrors : ~Raised(e)
        /\ pc = "llm_parse_text" => selected_model = Strip(argModelString)
        /\ \A i \in 1..Len(requests) : requests[i].model = Strip(argModelString)

\* C12 as claimed: the tag of every request is one of the four mode
\* identifiers, and the tag of a direct-text request is text.
C12_ClosedProvenance ==
    \A i \in 1..Len(requests) :
        /\ requests[i].source_type \in Kinds
        /\ kind = "text" => requests[i].source_type = "text"

\* The texts a successful OCR step of the kind can hand on.
OcrOutputs ==
    IF kind = "ocr-tesseract"
    THEN {extract_text_with_tesseract(TRUE, TRUE, raw).value :
            raw \in {r \in TessRawSamples :
                       extract_text_with_tesseract(TRUE, TRUE, r).ok}}
    ELSE IF kind = "ocr-easyocr"
    THEN {extract_text_with_easyocr(TRUE, TRUE, raw).value :
            raw \in {r \in EasyRawSamples :
                       extract_text_with_easyocr(TRUE, TRUE, r).ok}}
    ELSE IF kind = "ocr-fusion"
    THEN {FusedTranscript(tesseract_text, easyocr_text)}
    ELSE {}

ImageNotFound ==
    Err("FileNotFoundError", "Image not found")

TesseractMissing ==
    Err("RuntimeError", "Tesseract is not installed.")

EasyocrMissing ==
    Err("RuntimeError", "EasyOCR is not installed.")

\* C14: in a single-engine call whose adapter ran and found its engine
\* missing or the image path gone, that error is the error of the call and
\* no request is sent.
C14_SingleEngineFailsFast ==
    /\ (kind = "ocr-tesseract" /\ Happened("tess_done")) =>
          /\ ~Happened("tess_read") => (Raised(ImageNotFound) /\ requests = <<>>)
          /\ (Happened("tess_read") /\ ~tessInstalled) =>
                (Raised(TesseractMissing) /\ requests = <<>>)
    /\ (kind = "ocr-easyocr" /\ Happened("easy_done")) =>
          /\ ~EASYOCR_AVAILABLE => (Raised(EasyocrMissing) /\ requests = <<>>)
          /\ (EASYOCR_AVAILABLE /\ ~Happened("easy_read")) =>
                (Raised(ImageNotFound) /\ requests = <<>>)
    /\ (kind \in {"ocr-tesseract", "ocr-easyocr"} /\ Done
          /\ \E e \in {ImageNotFound, TesseractMissing, EasyocrMissing} :
                Raised(e)) =>
          (~result.ok /\ result # Pending /\ requests = <<>>)

\* An EasyOCR call without the engine, ended with the error of the adapter.
C14_Witness ==
    /\ kind = "ocr-easyocr"
    /\ ~EASYOCR_AVAILABLE
    /\ Happened("easy_done")
    /\ Done
    /\ result = EasyocrMissing
    /\ requests = <<>>

\* C15 as claimed: whatever the recognizer returned, the text a successful
\* adapter hands on is a clean transcript (never empty, no blank line, no
\* line with white space at its ends).
C15_AdapterOutputClean ==
    /\ (tess.st = "done" /\ tess.res.ok) => CleanTranscript(tess.res.value)
    /\ (easy.st = "done" /\ easy.res.ok) => CleanTranscript(easy.res.value)
    /\ (kind \in {"ocr-tesseract", "ocr-easyocr"} /\ ocr_text # None) =>
          CleanTranscript(ocr_text)

\* The first content of the reply is the marker of a code fence.
FencedReply(raw) ==
    StartsWith(Strip(raw), <<BACKTICK, BACKTICK, BACKTICK>>)

\* C16 as claimed: a reply whose first content is a fence marker, with or
\* without a language word or a newline after the marker, is parsed to the
\* JSON object inside the fence.
C16_FenceStripped ==
    (raw_text # None /\ FencedReply(raw_text)) =>
        /\ result.ok
        /\ result.value.event = JSON_A

\* The error classes the adapters raise for a missing engine, for an empty
\* recognition result, and for any failure of a single engine.
UnavailableClasses ==
    { extract_text_with_tesseract(TRUE, FALSE, <<>>).cls,
      extract_text_with_easyocr(FALSE, TRUE, <<>>).cls }

EmptyResultErrors ==
    { extract_text_with_tesseract(TRUE, TRUE, <<>>),
      extract_text_with_easyocr(TRUE, TRUE, <<>>) }

SingleEngineClasses ==
    UnavailableClasses \cup {e.cls : e \in EmptyResultErrors}
        \cup {ImageNotFound.cls}

MalformedReply ==
    Err("RuntimeError", "Model output was not valid JSON")

\* C17 as claimed: the class of a raised error tells its kind: the class of
\* an empty-result error is not a class used for a missing engine, and the
\* classes of the fusion-unavailable error and of the malformed-reply error
\* are not classes of single-engine failures.
C17_DistinctErrorKinds ==
    /\ \A e \in EmptyResultErrors : Raised(e) => e.cls \notin UnavailableClasses
    /\ Raised(FusionUnavailable) => FusionUnavailable.cls \notin SingleEngineClasses
    /\ Raised(MalformedReply) => MalformedReply.cls \notin SingleEngineClasses

\* C18 as claimed: when an OCR call whose OCR step produced text has ended,
\* well or not, that text was printed for the operator or is returned to the
\* caller as ocr_text.
C18_OcrTextExposed ==
    (kind # "text" /\ ocr_text # None /\ Done) =>
        \/ Happened("print_ocr_text")
        \/ result.ok /\ result.value.ocr_text = ocr_text

\* C19 as claimed: the step0 program started with neither --model nor
\* --model-string selects openai/gpt-5-mini and goes on to the pipeline of
\* its subcommand: it does not end in an error of model selection.
C19_Step0DefaultModel ==
    (entry = "step0" /\ argModel = None /\ argModelString = None
       /\ pc # "start") =>
        /\ selected_model = OPENAI_GPT5_MINI
        /\ result.cls \notin {"SystemExit"}
        /\ result # UnsupportedModel(SUPPORTED_MODELS)

\* The positions inside the with block of the fusion step.
FusionPcs ==
    {"fusion_submit_tess", "fusion_submit_easy", "fusion_join_tess",
     "fusion_join_easy", "fusion_exit"}

\* The positions at or after the first join.
JoinPcs ==
    {"fusion_join_tess", "fusion_join_easy", "fusion_exit"}

\* C20: fusion is fan-out/fan-in over exactly two tasks. Engine tasks exist
\* in fusion mode only, each is submitted at most once, both are submitted
\* before either is joined, and once the with block has been left (by return
\* or by exception, also when the Tesseract task failed first) neither task
\* is queued or running: both have ended.
C20_FanOutFanIn ==
    /\ kind # "ocr-fusion" => tess.st = "idle" /\ easy.st = "idle"
    /\ Count("submit_tess", trace) <= 1 /\ Count("submit_easy", trace) <= 1
    /\ pc \in JoinPcs => tess.st # "idle" /\ easy.st # "idle"
    /\ (kind = "ocr-fusion" /\ (tesseract_text # None \/ easyocr_text # None)) =>
           Happened("submit_tess") /\ Happened("submit_easy")
    /\ pc \notin FusionPcs =>
           /\ tess.st \in {"idle", "done"} /\ easy.st \in {"idle", "done"}
           /\ Happened("submit_tess") => tess.st = "done" /\ easy.st = "done"
           /\ Happened("submit_tess") => Happened("pool_shutdown")

\* The Tesseract task failed before the EasyOCR task had started, and the
\* call ended after the EasyOCR task had ended.
C20_Witness ==
    /\ Done
    /\ kind = "ocr-fusion"
    /\ tess.st = "done" /\ ~tess.res.ok
    /\ easy.st = "done"
    /\ Before("tess_done", "easy_start")
    /\ Before("easy_done", "pool_shutdown")

\* The errors a create call of the model raises.
UpstreamError ==
    Err("APIError", "upstream")

UpstreamFormatError ==
    Err("APIError", "response_format is not supported")

\* The errors the adapter of a single-engine kind can raise.
AdapterErrors ==
    IF kind = "ocr-tesseract"
    THEN {ImageNotFound, TesseractMissing,
          extract_text_with_tesseract(TRUE, TRUE, <<>>)}
    ELSE IF kind = "ocr-easyocr"
    THEN {ImageNotFound, EasyocrMissing,
          extract_text_with_easyocr(TRUE, TRUE, <<>>)}
    ELSE {}

\* The adapter of a single-engine call ran and raised.
SingleEngineRaised ==
    \/ kind = "ocr-tesseract" /\ Happened("tess_done") /\ ocr_text = None
    \/ kind = "ocr-easyocr" /\ Happened("easy_done") /\ ocr_text = None

\* A create call raised.
RequestRaised ==
    Happened("error_other") \/ Happened("error_response_format")

C22_UnavailableBeforeExtraction ==
    /\ (~tessInstalled /\ Happened("tess_done")) =>
          /\ ~Happened("tess_read")
          /\ kind = "ocr-tesseract" => Raised(TesseractMissing)
          /\ kind = "ocr-fusion" => tess.res = TesseractMissing
    /\ (~EASYOCR_AVAILABLE /\ Happened("easy_done")) =>
          /\ ~Happened("easy_read")
          /\ kind = "ocr-easyocr" => Raised(EasyocrMissing)
          /\ kind = "ocr-fusion" => easy.res = EasyocrMissing

\* The cleaning of a text: split into lines, trim each line, drop the blank
\* lines, join with newlines.
CleanText(t) ==
    JoinNewline(CleanLines(SplitLines(t)))

\* C23 as claimed: the transcript an adapter hands on is left as it is by
\* the cleaning, whatever the recognizer returned.
C23_CleaningIdempotent ==
    /\ (tess.st = "done" /\ tess.res.ok) => CleanText(tess.res.value) = tess.res.value
    /\ (easy.st = "done" /\ easy.res.ok) => CleanText(easy.res.value) = easy.res.value
    /\ (kind \in {"ocr-tesseract", "ocr-easyocr"} /\ ocr_text # None) =>
          CleanText(ocr_text) = ocr_text

\* The events of the engine tasks.
TaskEvents ==
    {"tess_start", "tess_read", "tess_done", "easy_start", "easy_read",
     "easy_done"}

\* A task of the pool is waiting for a worker or running.
TaskInFlight ==
    tess.st \in {"queued", "running"} \/ easy.st \in {"queued", "running"}

\* C24: in a step1 fusion call the finally clause of parse_image is reached,
\* and the temporary file unlinked by it, only when no engine task is in
\* flight; no task event follows the unlink; and while a task is in flight
\* the file is there unless something outside the call removed it.
C24_UnlinkAfterTasks ==
    (Impl = "step1" /\ kind = "ocr-fusion") =>
        /\ (pc = "finally" \/ Happened("unlink")) => ~TaskInFlight
        /\ \A i \in 1..Len(trace) : trace[i] = "unlink" =>
              \A j \in (i + 1)..Len(trace) : trace[j] \notin TaskEvents
        /\ (TaskInFlight /\ "tmp" \notin files) => Happened("external_unlink")

\* The Tesseract task failed before the EasyOCR task had started; the
\* EasyOCR task read the file, and the file was unlinked after it.
C24_Witness ==
    /\ Impl = "step1"
    /\ kind = "ocr-fusion"
    /\ tess.st = "done" /\ ~tess.res.ok
    /\ Before("tess_done", "easy_start")
    /\ Before("easy_read", "unlink")
    /\ Done

\* C25: once the fusion step is over its outcome is given by the outcomes of
\* the two tasks alone: the error of the Tesseract task when that task
\* failed, else the error of the EasyOCR task when that one failed, else the
\* transcript fused from the two texts; the order in which the tasks ended
\* has no part in it.
C25_OutcomeIgnoresOrder ==
    FusionLeft =>
        /\ ~tess.res.ok => (Raised(tess.res) /\ ocr_text = None)
        /\ (tess.res.ok /\ ~easy.res.ok) => (Raised(easy.res) /\ ocr_text = None)
        /\ (tess.res.ok /\ easy.res.ok) =>
              ocr_text = FusedTranscript(tess.res.value, easy.res.value)
        /\ (Done /\ ~tess.res.ok) => result = tess.res
        /\ (Done /\ tess.res.ok /\ ~easy.res.ok) => result = easy.res

\* Both tasks failed, the EasyOCR task first and with another error, and
\* the call ended with the error of the Tesseract task.
C25_Witness ==
    /\ FusionLeft
    /\ Done
    /\ ~tess.res.ok /\ ~easy.res.ok
    /\ easy.res # tess.res
    /\ Before("easy_done", "tess_done")
    /\ result = tess.res

\* C26: the two texts a fusion step formats are not blank, so the fused
\* transcript, and every request that carries it, holds no placeholder: each
\* section body is the text of its engine.
C26_NoPlaceholder ==
    kind = "ocr-fusion" =>
        /\ ocr_text # None =>
              /\ Strip(tesseract_text) # <<>>
              /\ Strip(easyocr_text) # <<>>
              /\ Count(NO_TEXT_FOUND, ocr_text) = 0
              /\ WellSectioned(ocr_text)
              /\ PrimaryBody(ocr_text) # <<>>
              /\ SecondaryBody(ocr_text) # <<>>
        /\ \A i \in 1..Len(requests) :
              /\ Count(NO_TEXT_FOUND, requests[i].text) = 0
              /\ requests[i].text = ocr_text

\* A fusion call whose fused transcript went out in a request.
C26_Witness ==
    /\ kind = "ocr-fusion"
    /\ Len(requests) >= 1
    /\ requests[1].text = ocr_text
    /\ Count(TESS_HEADER, requests[1].text) = 1

\* The fusion step has ended with a transcript or with an exception.
FusionEnded ==
    /\ pc \notin FusionPcs
    /\ ocr_text # None \/ ~exc.ok

\* C27: under the scheduling of the pool every fusion step that was entered
\* ends, with a fused transcript or with an exception, whichever task ends
\* first and whichever task fails.
C27_FusionTerminates ==
    (pc = "fusion_submit_tess") ~> FusionEnded

\* A fusion step that ended after the EasyOCR task had failed before the
\* Tesseract task was started.
C27_Witness ==
    /\ kind = "ocr-fusion"
    /\ FusionEnded
    /\ Happened("pool_shutdown")
    /\ easy.st = "done" /\ ~easy.res.ok
    /\ Before("easy_done", "tess_start")

\* C28: when the caller gives no explicit identifier, the model that is
\* selected, and the model of every request, is one of the five targets of
\* the alias table: the target of the shorthand, which is matched trimmed
\* and in lower case, and in step1 openai/gpt-5-mini when no shorthand is
\* given either.
C28_AllowedTargets ==
    /\ Cardinality(ALLOWED_MODEL_TARGETS) = 5
    /\ argModelString = None =>
          /\ selected_model # None => selected_model \in ALLOWED_MODEL_TARGETS
          /\ \A i \in 1..Len(requests) :
                /\ requests[i].model \in ALLOWED_MODEL_TARGETS
                /\ requests[i].model = selected_model
          /\ (selected_model # None /\ argModel = None) =>
                (Impl = "step1" /\ selected_model = OPENAI_GPT5_MINI)
          /\ (selected_model # None /\ argModel # None) =>
                /\ IsAlias(Lower(Strip(argModel)))
                /\ selected_model = AliasTarget(Lower(Strip(argModel)))

\* A step1 call with the shorthand Grok between blanks and no identifier,
\* whose request names the Grok target.
C28_Witness ==
    /\ Impl = "step1"
    /\ argModelString = None
    /\ argModel = <<" ", "G", "r", "o", "k", " ">>
    /\ Len(requests) >= 1
    /\ requests[1].model = XAI_GROK_4_1_FAST_REASONING

\* parse_image has been called.
ParseImageCalled ==
    /\ Impl = "step1"
    /\ kind # "text"
    /\ \/ entry = "pipeline" /\ pc # "start"
       \/ entry = "cli" /\ Happened("cli_read_bytes")

EmptyImage ==
    Err("ValueError", "Uploaded image is empty.")

InvalidImage ==
    Err("ValueError", "Uploaded file is not a valid image.")

\* C29: parse_image given no bytes, or bytes that are not an image, runs no
\* OCR engine and sends no request, and it ends with a ValueError; given no
\* bytes it does not open them and creates no temporary file (nor does it
\* for bytes PIL cannot open).
C29_BadImageRejected ==
    (ParseImageCalled /\ image # "good") =>
        /\ \A e \in TaskEvents : ~Happened(e)
        /\ tess.st = "idle" /\ easy.st = "idle"
        /\ ocr_text = None
        /\ requests = <<>>
        /\ pc \in {"parse_image", "write_temp", "done"}
        /\ Done => result = (IF image = "empty" THEN EmptyImage ELSE InvalidImage)
        /\ image = "empty" => ~Happened("decode")
        /\ image \in {"empty", "undecodable"} =>
              ("tmp" \notin files /\ ~Happened("temp_create"))

\* parse_image called with bytes PIL cannot open, ended with the ValueError
\* of an invalid image.
C29_Witness ==
    /\ ParseImageCalled
    /\ image = "undecodable"
    /\ Happened("decode")
    /\ Done
    /\ result = InvalidImage

\* C30 as claimed: on the same outcomes of the two engines step0 and step1
\* agree: the fused transcript is the one either implementation formats
\* from the two texts, every request carries it with the tag ocr-fusion, and
\* a failed step ends the call with the same error in both (the error of
\* the Tesseract task, else that of the EasyOCR task).
C30_Step0EquivStep1 ==
    kind = "ocr-fusion" =>
        /\ ocr_text # None =>
              /\ ocr_text = format_fusion_transcript(tesseract_text, easyocr_text)
              /\ ocr_text = format_fusion_transcript0(tesseract_text, easyocr_text)
        /\ \A i \in 1..Len(requests) :
              /\ requests[i].source_type = "ocr-fusion"
              /\ requests[i].text =
                    Strip(format_fusion_transcript(tesseract_text, easyocr_text))
              /\ requests[i].text =
                    Strip(format_fusion_transcript0(tesseract_text, easyocr_text))
        /\ (FusionLeft /\ ~BothSucceeded /\ Done) =>
              result = (IF ~tess.res.ok THEN tess.res ELSE easy.res)
        /\ (~EASYOCR_AVAILABLE /\ Done /\ result.cls = "RuntimeError") =>
              result = FusionUnavailable

============================================================================
